---- MODULE Spec2Model ----
(***************************************************************************)
(* A model of mlproject.MLProject (src/mlproject/mlproject.py): the        *)
(* constructor, the training loop train()/train_epoch(), the evaluation    *)
(* test(), the improvement rule _is_better(), the log-level selection and  *)
(* the checkpoint store save()/load().                                     *)
(*                                                                         *)
(* The model and the dataset factory are collaborators built from the      *)
(* config by get_model(config) / get_dataset_factory(config); what they    *)
(* answer (benchmark_metric(), has_test_set(), the number of batches of    *)
(* train_loader(), whether the model has parameters, the metric names its  *)
(* test_batch reports) is therefore carried by the config record.          *)
(*                                                                         *)
(* Scores: test() adds float(value / n_test_samples) per batch. The batch  *)
(* values of the model are multiples of n_test_samples, so that the        *)
(* quotient is exact and an aggregated value is an integer.                *)
(***************************************************************************)
EXTENDS Integers, Sequences, FiniteSets, TLC

VARIABLES
    self,             \* the MLProject instance: its fields
    mode,             \* the model's mode toggle: "init", "train" or "eval"
    log,              \* model.log, the LogLevel last set
    pc,               \* where train() stands
    batches_left,     \* batches the train loader's iterator still yields
    best_model_fname, \* train()'s local
    test_losses,      \* test()'s local: the aggregated mapping
    files,            \* the checkpoint files on disk: path -> state_dict
    artifacts,        \* paths handed to _run.add_artifact, in order
    err,              \* the exception that ended train(), if any
    args,             \* the best_score argument the constructor was called with
    hist              \* observations of the current run (history only)

vars == <<self, mode, log, pc, batches_left, best_model_fname, test_losses,
          files, artifacts, err, args, hist>>

----------------------------------------------------------------------------
(* Bounds of the model *)

MaxIterations == 2      \* n_global_iterations ranges over 0..MaxIterations
MaxEpochs == 2          \* n_epochs ranges over 0..MaxEpochs
MaxBatches == 2         \* batches per epoch of the train loader
MaxTestBatches == 1     \* batches of the test loader
NTestSamples == 2       \* len(test_set()), the items of the held-out set
MaxInterval == 2        \* log_iteration_scalars / log_iteration_all
MaxWeight == 2          \* distinct non-empty model weight blobs
MaxLoads == 1           \* load() calls in one behaviour
EpochCap == 2           \* epochs counted; binds only where the loop never ends
                        \* (an iteration budget and a train loader without batches)

(* Python's None, for integer-valued fields *)
None == -1
(* random.randint(int(1e10), int(1e10) + int(1e8)): the lower end of the    *)
(* range, scaled down to fit TLC's 32-bit integers; all that matters is    *)
(* that a generated id is non-zero and differs from every given id.        *)
RandomLo == 1000
RandomIds == {RandomLo, RandomLo + 1}

(* Absent directory / path (None) *)
NoDir == <<>>
NoPath == <<>>

ModelName == "net"

Kinds == {"accuracy", "loss", "nll", "other"}

(* The metric values one test batch may report, as multiples of           *)
(* n_test_samples (sample values)                                          *)
TestValues == {0, 1}
Truthy(x) == x # None /\ x # 0

----------------------------------------------------------------------------
(* Pure functions *)

RECURSIVE Digits(_)
Digits(n) == IF n < 10 THEN <<n>> ELSE Digits(n \div 10) \o <<n % 10>>

RECURSIVE Zeros(_)
Zeros(k) == IF k <= 0 THEN <<>> ELSE <<0>> \o Zeros(k - 1)

(* "{:05}".format(n): the decimal digits of n, zero-padded to width 5 *)
Pad5(n) == Zeros(5 - Len(Digits(n))) \o Digits(n)

(* get_model_dir(config, str(_id) + '_' + name) *)
get_model_dir(config, id) == <<config.model_dir, id, ModelName>>

(* get_tensorboard_dir(str(_id) + '_' + name) *)
get_tensorboard_dir(id) == <<"tensorboard", id, ModelName>>

(* save_filename(): abspath(join(model_save_dir, "<name>_e<epoch>_b<step>.torch")) *)
save_filename(s) == <<s.model_save_dir, ModelName, Pad5(s.epoch), Pad5(s.epoch_step)>>

(* state_dict(): every field, best_score included *)
state_dict(s) ==
    [_id |-> s._id, config |-> s.config, global_step |-> s.global_step,
     epoch |-> s.epoch, epoch_step |-> s.epoch_step, best_score |-> s.best_score,
     model_save_dir |-> s.model_save_dir,
     tensorboard_run_dir |-> s.tensorboard_run_dir,
     model_state |-> s.model_state]

(* The weights of a model freshly built by get_model(config): a model      *)
(* without parameters has the empty state (0), any other a non-empty one.  *)
FreshWeights(config) == IF config.n_params = 0 THEN {0} ELSE 1 .. MaxWeight

(* A constructor that starts every instance at epoch_step 0 *)
ConstructResetMutant(config, kw, run, rnd, fresh) ==
    LET theId == IF Truthy(kw._id) THEN kw._id ELSE rnd
    IN  [_id |-> theId,
         config |-> config,
         _run |-> run,
         model_state |-> IF Truthy(kw.model_state) THEN kw.model_state ELSE fresh,
         global_step |-> kw.global_step,
         epoch |-> kw.epoch,
         epoch_step |-> 0,
         best_score |-> None,
         tensorboard_run_dir |->
             IF kw.tensorboard_run_dir = NoDir /\ config.tensorboard_dir # NoDir
             THEN <<"tensorboard", theId, ModelName>>
             ELSE kw.tensorboard_run_dir,
         model_save_dir |->
             IF kw.model_save_dir = NoDir
             THEN <<config.model_dir, theId, ModelName>>
             ELSE kw.model_save_dir]

(* A constructor that keeps the best_score it is given *)
ConstructKeepBestMutant(config, kw, run, rnd, fresh) ==
    LET theId == IF Truthy(kw._id) THEN kw._id ELSE rnd
    IN  [_id |-> theId,
         config |-> config,
         _run |-> run,
         model_state |-> IF Truthy(kw.model_state) THEN kw.model_state ELSE fresh,
         global_step |-> kw.global_step,
         epoch |-> kw.epoch,
         epoch_step |-> kw.epoch_step,
         best_score |-> kw.best_score,
         tensorboard_run_dir |->
             IF kw.tensorboard_run_dir = NoDir /\ config.tensorboard_dir # NoDir
             THEN <<"tensorboard", theId, ModelName>>
             ELSE kw.tensorboard_run_dir,
         model_save_dir |->
             IF kw.model_save_dir = NoDir
             THEN <<config.model_dir, theId, ModelName>>
             ELSE kw.model_save_dir]

(* MLProject.__init__(config, _run=run, and the keyword arguments kw): rnd *)
(* is what random.randint returns, fresh the weights of the freshly built  *)
(* model. kw.best_score is read by nothing.                                *)
Construct(config, kw, run, rnd, fresh) ==
    LET theId == IF Truthy(kw._id) THEN kw._id ELSE rnd
    IN  [_id |-> theId,
         config |-> config,
         _run |-> run,
         model_state |-> IF Truthy(kw.model_state) THEN kw.model_state ELSE fresh,
         global_step |-> kw.global_step,
         epoch |-> kw.epoch,
         epoch_step |-> kw.epoch_step,
         best_score |-> None,
         tensorboard_run_dir |->
             IF kw.tensorboard_run_dir = NoDir /\ config.tensorboard_dir # NoDir
             THEN get_tensorboard_dir(theId)
             ELSE kw.tensorboard_run_dir,
         model_save_dir |->
             IF kw.model_save_dir = NoDir
             THEN get_model_dir(config, theId)
             ELSE kw.model_save_dir]

(* _is_better(score): "raise" stands for the Exception of the last branch *)
IsBetterStrictMutant(best_score, kind, score) ==
    IF best_score = None THEN "yes"
    ELSE IF kind \in {"accuracy", "loss"}
         THEN (IF best_score <= score THEN "yes" ELSE "no")
    ELSE IF kind = "nll"
         THEN (IF best_score >= score THEN "yes" ELSE "no")
    ELSE "raise"

IsBetterNoneMutant(best_score, kind, score) ==
    IF kind \in {"accuracy", "loss"}
    THEN (IF best_score = None \/ best_score < score THEN "yes" ELSE "no")
    ELSE IF kind = "nll"
         THEN (IF best_score = None \/ best_score > score THEN "yes" ELSE "no")
    ELSE "raise"

_is_better(best_score, kind, score) ==
    IF best_score = None THEN "yes"
    ELSE IF kind \in {"accuracy", "loss"}
         THEN (IF best_score < score THEN "yes" ELSE "no")
    ELSE IF kind = "nll"
         THEN (IF best_score > score THEN "yes" ELSE "no")
    ELSE "raise"

(* _should_stop_training() *)
ShouldStopEpochOnlyMutant(s) == s.epoch >= s.config.n_epochs

ShouldStopLateMutant(s) ==
    IF s.config.n_global_iterations # None
    THEN s.global_step > s.config.n_global_iterations
    ELSE s.epoch > s.config.n_epochs

_should_stop_training(s) ==
    IF s.config.n_global_iterations # None
    THEN s.global_step >= s.config.n_global_iterations
    ELSE s.epoch >= s.config.n_epochs

(* _set_log_level(): the level chosen for epoch_step. A falsy interval     *)
(* (absent, or 0) is skipped before the modulo is taken.                   *)
SetLogLevelSwappedMutant(config, epoch_step) ==
    IF Truthy(config.log_iteration_scalars)
       /\ epoch_step % config.log_iteration_scalars = 0 THEN "SCALARS"
    ELSE IF Truthy(config.log_iteration_all)
            /\ epoch_step % config.log_iteration_all = 0 THEN "ALL"
    ELSE "NONE"

_set_log_level(config, epoch_step) ==
    IF Truthy(config.log_iteration_all)
       /\ epoch_step % config.log_iteration_all = 0 THEN "ALL"
    ELSE IF Truthy(config.log_iteration_scalars)
            /\ epoch_step % config.log_iteration_scalars = 0 THEN "SCALARS"
    ELSE "NONE"

(* An aggregation that takes the mean of the batch values: it divides by  *)
(* the number of batches instead of the number of items.                   *)
RECURSIVE MeanOver(_, _, _)
MeanOver(losses_so_far, stream, n_batches) ==
    IF stream = <<>> THEN losses_so_far
    ELSE LET losses == Head(stream)
             next == [name \in DOMAIN losses_so_far \cup DOMAIN losses |->
                        (IF name \in DOMAIN losses_so_far
                         THEN losses_so_far[name] ELSE 0)
                        + (IF name \in DOMAIN losses
                           THEN losses[name] \div n_batches ELSE 0)]
         IN  MeanOver(next, Tail(stream), n_batches)

AggregateMeanMutant(losses_so_far, stream, n_test_samples) ==
    MeanOver(losses_so_far, stream, Len(stream))

(* test(), lines 126-133: the mapping aggregated over the batches of the   *)
(* test loader; a batch is the mapping test_batch returns for it.          *)
RECURSIVE Aggregate(_, _, _)
Aggregate(losses_so_far, stream, n_test_samples) ==
    IF stream = <<>> THEN losses_so_far
    ELSE LET losses == Head(stream)
             next == [name \in DOMAIN losses_so_far \cup DOMAIN losses |->
                        (IF name \in DOMAIN losses_so_far
                         THEN losses_so_far[name] ELSE 0)
                        + (IF name \in DOMAIN losses
                           THEN losses[name] \div n_test_samples ELSE 0)]
         IN  Aggregate(next, Tail(stream), n_test_samples)

EmptyLosses == [name \in {} |-> 0]

(* test(), line 139: test_losses[benchmark_metric()]; a missing key raises *)
(* KeyError.                                                               *)
LookupDefaultMutant(losses, kind) ==
    IF kind \in DOMAIN losses
    THEN [raised |-> FALSE, value |-> losses[kind]]
    ELSE [raised |-> FALSE, value |-> 0]

benchmark_score(losses, kind) ==
    IF kind \in DOMAIN losses
    THEN [raised |-> FALSE, value |-> losses[kind]]
    ELSE [raised |-> TRUE, value |-> None]

(* A batch of the test loader, as the mapping test_batch returns for it:   *)
(* values for some of the metric names the model reports.                  *)
TestBatches(config) ==
    UNION {[names -> {t * config.n_test_samples : t \in TestValues}] :
              names \in SUBSET config.test_metrics}

RECURSIVE Streams(_, _)
Streams(batches, n) ==
    IF n = 0 THEN {<<>>}
    ELSE LET shorter == Streams(batches, n - 1)
         IN  shorter \cup {<<b>> \o st : b \in batches,
                                        st \in {x \in shorter : Len(x) = n - 1}}

(* Weights after one train_batch: a model without parameters keeps the     *)
(* empty state, any other ends with some non-empty state.                  *)
TrainedWeights(s) == IF s.config.n_params = 0 THEN {0} ELSE 1 .. MaxWeight

----------------------------------------------------------------------------
(* Initial states: a freshly constructed instance, train() not yet called *)

NoEval == [ok |-> FALSE, score |-> None, prior |-> None, verdict |-> "none",
           path |-> NoPath]

(* The observations of one train() call: start_step / start_epoch the     *)
(* counters it started from; n_train_batch, last_batch_step,               *)
(* last_batch_epoch, log_step, batch_mode the train_batch calls and the    *)
(* state the most recent one was made in; epoch_started, epoch_start_step, *)
(* in_epoch the epoch most recently started, global_step at its start and  *)
(* the batches processed in it; full_epochs the epochs whose batches were  *)
(* all processed; n_epoch_end the on_epoch_end calls; n_tests the test()   *)
(* calls, test_stream the batches of the one under way, test_mode the mode *)
(* at the most recent test_batch; evals the score of each completed        *)
(* evaluation, whether it saved, and best_score after it; n_saved,         *)
(* saved_score, saved_path the saves; n_artifacts, artifact_after,         *)
(* artifact_ended the add_artifact calls; ended whether on_train_end was   *)
(* called. Of the instance: n_evals and last_eval its completed            *)
(* evaluations, loaded the file it was loaded from. n_loads counts the     *)
(* load() calls of the behaviour.                                          *)
NewHist(loaded, n_loads) ==
    [start_step |-> None, start_epoch |-> None,
     n_train_batch |-> 0, last_batch_step |-> None, last_batch_epoch |-> None,
     log_step |-> None,
     batch_mode |-> "none", test_mode |-> "none",
     n_saved |-> 0, saved_score |-> None, saved_path |-> NoPath,
     n_artifacts |-> 0, artifact_after |-> None, artifact_ended |-> FALSE,
     n_evals |-> 0, last_eval |-> NoEval,
     epoch_started |-> None, epoch_start_step |-> None, in_epoch |-> 0,
     test_stream |-> <<>>, evals |-> <<>>,
     full_epochs |-> 0, n_epoch_end |-> 0, n_tests |-> 0,
     ended |-> FALSE, loaded |-> loaded, n_loads |-> n_loads]

(* The config: the keys the code reads, and what the collaborators built   *)
(* from it answer.                                                         *)
Config(iters, epochs, scalars, all, board, batches, metric, has_test, params, reported) ==
    [n_global_iterations |-> iters, n_epochs |-> epochs,
     log_iteration_scalars |-> scalars, log_iteration_all |-> all,
     tensorboard_dir |-> board, model_dir |-> "models",
     n_train_batches |-> batches, benchmark_metric |-> metric,
     has_test_set |-> has_test, n_params |-> params, test_metrics |-> reported,
     n_test_samples |-> NTestSamples, n_test_batches |-> MaxTestBatches]

(* n_global_iterations XOR n_epochs *)
Budgets ==
    {<<b, None>> : b \in 0 .. MaxIterations} \cup {<<None, e>> : e \in 0 .. MaxEpochs}

Intervals == {None} \cup 0 .. MaxInterval

(* The keyword arguments of a constructor call; best_score_given tells    *)
(* whether best_score was passed or left to its default (0).               *)
Args(id, step, epoch, epoch_step, given, best, save_dir, board_dir, weights) ==
    [_id |-> id, global_step |-> step, epoch |-> epoch, epoch_step |-> epoch_step,
     best_score_given |-> given, best_score |-> best, model_save_dir |-> save_dir,
     tensorboard_run_dir |-> board_dir, model_state |-> weights]

BestArg(a) == [best_score_given |-> a.best_score_given, best_score |-> a.best_score]

(* The state after MLProject(config, _run=run, and the keyword arguments a) *)
InitWith(config, a, run) ==
    /\ \E rnd \in RandomIds, fresh \in FreshWeights(config) :
          self = Construct(config, a, run, rnd, fresh)
    /\ args = BestArg(a)
    /\ mode = "init"
    /\ log = "unset"
    /\ pc = "idle"
    /\ batches_left = 0
    /\ best_model_fname = NoPath
    /\ test_losses = EmptyLosses
    /\ files = [p \in {} |-> 0]
    /\ artifacts = <<>>
    /\ err = "none"
    /\ hist = NewHist(NoPath, 0)

DefaultArgs == Args(None, 0, 0, 0, FALSE, 0, NoDir, NoDir, None)

(* MLProject(config, _id=1, _run=...): every budget, train stream length   *)
(* and metric kind, with and without a test set; no logging intervals.     *)
Init ==
    \E b \in Budgets, L \in 0 .. MaxBatches, kind \in Kinds,
       ht \in BOOLEAN, run \in {"run", "None"} :
        InitWith(Config(b[1], b[2], None, None, NoDir, L, kind, ht, 0, {kind}),
                 [DefaultArgs EXCEPT !._id = 1], run)

(* MLProject(config) with logging intervals, under a budget of one epoch *)
InitLog ==
    \E lsc \in Intervals, lall \in Intervals, L \in 1 .. MaxBatches + 1 :
        InitWith(Config(None, 1, lsc, lall, NoDir, L, "accuracy", TRUE, 0,
                        {"accuracy"}),
                 DefaultArgs, "None")

(* Sample arguments of the constructor: _id; (global_step, epoch,          *)
(* epoch_step); (best_score given?, best_score); the directories.          *)
GivenIds == {None, 0, 1}
Starts == {<<0, 0, 0>>, <<1, 0, 1>>, <<2, 1, 0>>}
BestArgs == {<<FALSE, 0>>, <<TRUE, 0>>, <<TRUE, 1>>}
GivenDirs == {NoDir, <<"given_dir">>}
GivenBoards == {NoDir, <<"given_board">>}
ConfigBoards == {NoDir, <<"boards">>}

(* MLProject(config, _id, global_step, epoch, epoch_step, best_score,      *)
(* model_save_dir, tensorboard_run_dir, model_state): every argument       *)
(* given or left out, under a budget of two epochs of one batch.           *)
InitCkpt ==
    \E id \in GivenIds, st \in Starts, b \in BestArgs,
       msd \in GivenDirs, tbd \in GivenBoards, tbcfg \in ConfigBoards,
       np \in {0, 1}, ms \in {None} \cup 0 .. MaxWeight :
        /\ np = 0 => ms \in {None, 0}
        /\ InitWith(Config(None, 2, None, None, tbcfg, 1, "accuracy", TRUE, np,
                           {"accuracy"}),
                    Args(id, st[1], st[2], st[3], b[1], b[2], msd, tbd, ms), "None")

(* MLProject(config).train() for one epoch of one batch, with a model     *)
(* that reports a second metric besides the benchmark metric and a test    *)
(* loader of one batch more.                                               *)
InitAgg ==
    \E kind \in {"accuracy", "nll"} :
        InitWith([Config(None, 1, None, None, NoDir, 1, kind, TRUE, 0, {kind, "aux"})
                     EXCEPT !.n_test_batches = MaxTestBatches + 1],
                 DefaultArgs, "None")

----------------------------------------------------------------------------
(* train() *)

(* train(), lines 148-150 *)
TrainBegin ==
    /\ pc \in {"idle", "stopped"}
    /\ mode' = "train"
    /\ best_model_fname' = NoPath
    /\ pc' = "epoch_start"
    /\ err' = "none"
    /\ hist' = [NewHist(hist.loaded, hist.n_loads) EXCEPT
                   !.start_step = self.global_step,
                   !.start_epoch = self.epoch,
                   !.n_evals = hist.n_evals,
                   !.last_eval = hist.last_eval]
    /\ UNCHANGED <<self, log, batches_left, test_losses, files, artifacts, args>>

(* train_epoch(), lines 181-185: the stop check at the start of an epoch,  *)
(* then the train loader is opened and epoch_step reset.                   *)
EpochBegin ==
    /\ pc = "epoch_start"
    /\ IF _should_stop_training(self)
       THEN /\ pc' = "finish"
            /\ UNCHANGED <<self, batches_left, hist>>
       ELSE /\ self' = [self EXCEPT !.epoch_step = 0]
            /\ batches_left' = self.config.n_train_batches
            /\ hist' = [hist EXCEPT !.epoch_started = self.epoch, !.in_epoch = 0,
                                    !.epoch_start_step = self.global_step,
                                    !.full_epochs =
                                        IF self.config.n_train_batches = 0
                                        THEN @ + 1 ELSE @]
            /\ pc' = "batch"
    /\ UNCHANGED <<mode, log, best_model_fname, test_losses, files, artifacts,
                   err, args>>

(* train_epoch(), lines 186-194: one batch *)
TrainBatch ==
    /\ pc = "batch"
    /\ batches_left > 0
    /\ log' = _set_log_level(self.config, self.epoch_step)
    /\ \E w \in TrainedWeights(self) :
          self' = [self EXCEPT !.global_step = @ + 1, !.epoch_step = @ + 1,
                               !.model_state = w]
    /\ hist' = [hist EXCEPT !.n_train_batch = @ + 1,
                            !.last_batch_step = self.global_step,
                            !.last_batch_epoch = self.epoch,
                            !.log_step = self.epoch_step,
                            !.batch_mode = mode,
                            !.in_epoch = @ + 1,
                            !.full_epochs = IF batches_left = 1 THEN @ + 1 ELSE @]
    /\ IF _should_stop_training(self')
       THEN pc' = "finish" /\ batches_left' = 0
       ELSE pc' = "batch" /\ batches_left' = batches_left - 1
    /\ UNCHANGED <<mode, best_model_fname, test_losses, files, artifacts, err, args>>

(* A train() that leaves the loop on any exception, as it does on         *)
(* TrainingStop                                                            *)
TrainBatchFailCaughtMutant ==
    /\ pc = "batch"
    /\ \E stage \in {"draw", "train_batch"} :
          /\ stage = "train_batch" => batches_left > 0
          /\ log' = IF stage = "train_batch"
                    THEN _set_log_level(self.config, self.epoch_step) ELSE log
          /\ hist' = IF stage = "train_batch"
                     THEN [hist EXCEPT !.n_train_batch = @ + 1,
                                       !.last_batch_step = self.global_step,
                                       !.last_batch_epoch = self.epoch,
                                       !.log_step = self.epoch_step,
                                       !.batch_mode = mode]
                     ELSE hist
    /\ pc' = "finish"
    /\ err' = "none"
    /\ batches_left' = 0
    /\ UNCHANGED <<self, mode, best_model_fname, test_losses, files, artifacts, args>>

(* train_epoch(), lines 186-188, and train(), lines 153-156: drawing the   *)
(* next batch from the train loader, or train_batch (called after          *)
(* _set_log_level), raises an exception other than TrainingStop; nothing   *)
(* catches it and train() ends with it. The weights a failing train_batch  *)
(* leaves behind are not followed.                                         *)
TrainBatchFail ==
    /\ pc = "batch"
    /\ \E stage \in {"draw", "train_batch"} :
          /\ stage = "train_batch" => batches_left > 0
          /\ log' = IF stage = "train_batch"
                    THEN _set_log_level(self.config, self.epoch_step) ELSE log
          /\ hist' = IF stage = "train_batch"
                     THEN [hist EXCEPT !.n_train_batch = @ + 1,
                                       !.last_batch_step = self.global_step,
                                       !.last_batch_epoch = self.epoch,
                                       !.log_step = self.epoch_step,
                                       !.batch_mode = mode]
                     ELSE hist
    /\ pc' = "error"
    /\ err' = "CollaboratorError"
    /\ batches_left' = 0
    /\ UNCHANGED <<self, mode, best_model_fname, test_losses, files, artifacts, args>>

(* train_epoch() line 196 and train() lines 157, 162: the train loader is  *)
(* exhausted; without a test set the epoch is counted at once.             *)
(* First an epoch end that counts the epoch without looking for a test     *)
(* set.                                                                    *)
EpochEndNoTestMutant ==
    /\ pc = "batch"
    /\ batches_left = 0
    /\ self.epoch < EpochCap
    /\ hist' = [hist EXCEPT !.n_epoch_end = @ + 1]
    /\ pc' = "epoch_start" /\ self' = [self EXCEPT !.epoch = @ + 1]
    /\ UNCHANGED <<mode, log, batches_left, best_model_fname, test_losses, files,
                   artifacts, err, args>>

EpochEnd ==
    /\ pc = "batch"
    /\ batches_left = 0
    /\ self.epoch < EpochCap
    /\ hist' = [hist EXCEPT !.n_epoch_end = @ + 1]
    /\ IF self.config.has_test_set
       THEN pc' = "test" /\ self' = self
       ELSE pc' = "epoch_start" /\ self' = [self EXCEPT !.epoch = @ + 1]
    /\ UNCHANGED <<mode, log, batches_left, best_model_fname, test_losses, files,
                   artifacts, err, args>>

(* test(), lines 125-133 *)
Test ==
    /\ pc = "test"
    /\ mode' = "eval"
    /\ \E stream \in Streams(TestBatches(self.config), self.config.n_test_batches) :
          /\ test_losses' = Aggregate(EmptyLosses, stream, self.config.n_test_samples)
          /\ hist' = [hist EXCEPT !.test_mode = IF stream = <<>> THEN @ ELSE "eval",
                                  !.test_stream = stream,
                                  !.n_tests = @ + 1]
    /\ pc' = "test_return"
    /\ UNCHANGED <<self, log, batches_left, best_model_fname, files, artifacts,
                   err, args>>

(* test(), lines 135-139, and train(), lines 158-162: the lookup of the    *)
(* benchmark metric, the improvement rule, the save and the epoch count.   *)
TestReturn ==
    /\ pc = "test_return"
    /\ LET kind == self.config.benchmark_metric
           found == benchmark_score(test_losses, kind)
       IN
       IF found.raised
       THEN /\ pc' = "error"
            /\ err' = "KeyError"
            /\ hist' = [hist EXCEPT !.test_stream = <<>>]
            /\ UNCHANGED <<self, files, best_model_fname>>
       ELSE LET score == found.value
                verdict == _is_better(self.best_score, kind, score)
                ev == [ok |-> TRUE, score |-> score, prior |-> self.best_score,
                       verdict |-> verdict,
                       path |-> IF verdict = "yes" THEN save_filename(self)
                                ELSE NoPath]
            IN  CASE verdict = "raise" ->
                       /\ pc' = "error"
                       /\ err' = "Exception"
                       /\ hist' = [hist EXCEPT !.n_evals = @ + 1, !.last_eval = ev,
                                               !.test_stream = <<>>]
                       /\ UNCHANGED <<self, files, best_model_fname>>
                  [] verdict = "yes" ->
                       /\ files' = [p \in DOMAIN files \cup {save_filename(self)} |->
                                      IF p = save_filename(self)
                                      THEN state_dict(self) ELSE files[p]]
                       /\ best_model_fname' = save_filename(self)
                       /\ self' = [self EXCEPT !.best_score = score, !.epoch = @ + 1]
                       /\ hist' = [hist EXCEPT !.n_evals = @ + 1, !.last_eval = ev,
                                               !.n_saved = @ + 1,
                                               !.saved_score = score,
                                               !.saved_path = save_filename(self),
                                               !.test_stream = <<>>,
                                               !.evals = Append(@,
                                                   [score |-> score, saved |-> TRUE,
                                                    best |-> score])]
                       /\ pc' = "epoch_start"
                       /\ err' = err
                  [] verdict = "no" ->
                       /\ self' = [self EXCEPT !.epoch = @ + 1]
                       /\ hist' = [hist EXCEPT !.n_evals = @ + 1, !.last_eval = ev,
                                               !.test_stream = <<>>,
                                               !.evals = Append(@,
                                                   [score |-> score, saved |-> FALSE,
                                                    best |-> self.best_score])]
                       /\ pc' = "epoch_start"
                       /\ UNCHANGED <<files, best_model_fname, err>>
    /\ test_losses' = EmptyLosses
    /\ UNCHANGED <<mode, log, batches_left, artifacts, args>>

(* train(), lines 164-166: after the loop *)
FinishAlwaysMutant ==
    /\ pc = "finish"
    /\ IF self._run # "None"
       THEN /\ artifacts' = Append(artifacts, best_model_fname)
            /\ hist' = [hist EXCEPT !.n_artifacts = @ + 1,
                                    !.artifact_after = hist.n_train_batch,
                                    !.artifact_ended = hist.ended]
       ELSE UNCHANGED <<artifacts, hist>>
    /\ pc' = "train_end"
    /\ UNCHANGED <<self, mode, log, batches_left, best_model_fname, test_losses,
                   files, err, args>>

Finish ==
    /\ pc = "finish"
    /\ IF best_model_fname # NoPath /\ self._run # "None"
       THEN /\ artifacts' = Append(artifacts, best_model_fname)
            /\ hist' = [hist EXCEPT !.n_artifacts = @ + 1,
                                    !.artifact_after = hist.n_train_batch,
                                    !.artifact_ended = hist.ended]
       ELSE UNCHANGED <<artifacts, hist>>
    /\ pc' = "train_end"
    /\ UNCHANGED <<self, mode, log, batches_left, best_model_fname, test_losses,
                   files, err, args>>

(* train(), line 167 *)
OnTrainEnd ==
    /\ pc = "train_end"
    /\ hist' = [hist EXCEPT !.ended = TRUE]
    /\ pc' = "stopped"
    /\ UNCHANGED <<self, mode, log, batches_left, best_model_fname, test_losses,
                   files, artifacts, err, args>>

(* load(filename): the constructor called with the keys of the loaded     *)
(* state dict as keyword arguments; _run is not among them.                *)
Load ==
    /\ pc \in {"idle", "stopped", "error"}
    /\ hist.n_loads < MaxLoads
    /\ \E p \in DOMAIN files :
         LET d == files[p] IN
         /\ \E rnd \in RandomIds, fresh \in FreshWeights(d.config) :
               self' = Construct(d.config,
                                 Args(d._id, d.global_step, d.epoch, d.epoch_step,
                                      TRUE, d.best_score, d.model_save_dir,
                                      d.tensorboard_run_dir, d.model_state),
                                 "None", rnd, fresh)
         /\ args' = [best_score_given |-> TRUE, best_score |-> d.best_score]
         /\ hist' = NewHist(p, hist.n_loads + 1)
    /\ mode' = "init"
    /\ log' = "unset"
    /\ pc' = "idle"
    /\ batches_left' = 0
    /\ best_model_fname' = NoPath
    /\ test_losses' = EmptyLosses
    /\ err' = "none"
    /\ UNCHANGED <<files, artifacts>>

Next ==
    \/ TrainBegin
    \/ EpochBegin
    \/ TrainBatch
    \/ TrainBatchFail
    \/ EpochEnd
    \/ Test
    \/ TestReturn
    \/ Finish
    \/ OnTrainEnd
    \/ Load

Spec == Init /\ [][Next]_vars

SpecLog == InitLog /\ [][Next]_vars

SpecCkpt == InitCkpt /\ [][Next]_vars

SpecAgg == InitAgg /\ [][Next]_vars

----------------------------------------------------------------------------
(* Properties *)

Stopping == pc \in {"finish", "train_end", "stopped"}
Recognized == {"accuracy", "loss", "nll"}

(* C1. Iteration budget: a run started at global_step 0 with              *)
(* n_global_iterations = B >= 1 and at least one batch per epoch leaves    *)
(* the loop with global_step = B after exactly B train_batch calls, and    *)
(* every train_batch call is made while global_step < B.                   *)
C1_IterationBudget ==
    LET B == self.config.n_global_iterations IN
    (B # None /\ B >= 1 /\ self.config.n_train_batches >= 1 /\ hist.start_step = 0)
    => /\ hist.n_train_batch > 0 => hist.last_batch_step < B
       /\ hist.n_train_batch <= B
       /\ Stopping => (self.global_step = B /\ hist.n_train_batch = B)

(* A run whose budget of two iterations is used up at the end of the      *)
(* second epoch of one batch each has stopped.                             *)
C1_Witness ==
    /\ pc = "stopped"
    /\ self.config.n_global_iterations = 2
    /\ self.config.n_train_batches = 1
    /\ hist.start_step = 0
    /\ self.epoch = 1
    /\ hist.n_train_batch = 2

(* C2. Epoch budget: without an iteration budget, a run started at epoch  *)
(* 0 and global_step 0 with n_epochs = E and L batches per epoch leaves    *)
(* the loop only at the start of an epoch, with epoch = E and              *)
(* global_step = E * L, all E * L batches processed and none beyond.       *)
C2_EpochBudget ==
    LET E == self.config.n_epochs
        L == self.config.n_train_batches
    IN
    (self.config.n_global_iterations = None /\ hist.start_step = 0
        /\ hist.start_epoch = 0)
    => /\ hist.n_train_batch <= E * L
       /\ hist.n_train_batch > 0 => hist.last_batch_epoch < E
       /\ pc = "finish" => self.epoch_step \in {0, L}
       /\ Stopping => /\ self.epoch = E
                      /\ self.global_step = E * L
                      /\ hist.n_train_batch = E * L

C2_Witness ==
    /\ pc = "stopped"
    /\ self.config.n_global_iterations = None
    /\ self.config.n_epochs = 2
    /\ self.config.n_train_batches = 2
    /\ hist.start_step = 0
    /\ hist.start_epoch = 0
    /\ self.global_step = 4

(* C3. Save/load round trip: the instance load() builds from a checkpoint *)
(* file has the run id, config, global_step, epoch, epoch_step,            *)
(* model_save_dir, tensorboard dir and model weights of the state dict     *)
(* saved in it; only best_score may differ (it is None after load).        *)
C3_RoundTrip ==
    (pc = "idle" /\ hist.loaded # NoPath)
    => LET d == files[hist.loaded] IN
       /\ self._id = d._id
       /\ self.config = d.config
       /\ self.global_step = d.global_step
       /\ self.epoch = d.epoch
       /\ self.epoch_step = d.epoch_step
       /\ self.model_save_dir = d.model_save_dir
       /\ self.tensorboard_run_dir = d.tensorboard_run_dir
       /\ self.model_state = d.model_state
       /\ self.best_score = None

(* An instance loaded from a checkpoint that holds a best score, no       *)
(* tensorboard dir and the empty weights of a model without parameters.    *)
C3_Witness ==
    /\ pc = "idle"
    /\ hist.loaded # NoPath
    /\ files[hist.loaded].best_score # None
    /\ files[hist.loaded].tensorboard_run_dir = NoDir
    /\ files[hist.loaded].model_state = 0
    /\ files[hist.loaded].epoch_step > 0

(* C4. Improvement rule direction: with a prior best score, _is_better    *)
(* answers true iff score < best_score for kind nll and iff                *)
(* score > best_score for kinds accuracy and loss; an equal score is no    *)
(* improvement.                                                            *)
C4_Direction ==
    LET ev == hist.last_eval
        kind == self.config.benchmark_metric
    IN
    (ev.ok /\ ev.prior # None /\ kind \in Recognized)
    => /\ ev.verdict \in {"yes", "no"}
       /\ kind = "nll" => (ev.verdict = "yes" <=> ev.score < ev.prior)
       /\ kind \in {"accuracy", "loss"} => (ev.verdict = "yes" <=> ev.score > ev.prior)

(* An evaluation of kind nll whose score equals the prior best *)
C4_Witness ==
    /\ hist.last_eval.ok
    /\ hist.last_eval.prior # None
    /\ hist.last_eval.score = hist.last_eval.prior
    /\ self.config.benchmark_metric = "nll"
    /\ hist.last_eval.verdict = "no"

(* C5. Without a prior best score _is_better answers true for every score *)
(* and every kind; the first evaluation an instance completes saves a      *)
(* checkpoint and makes its score the best score.                          *)
C5_FirstEvaluation ==
    LET ev == hist.last_eval IN
    /\ (ev.ok /\ ev.prior = None) => ev.verdict = "yes"
    /\ hist.n_evals = 1
       => /\ ev.ok /\ ev.prior = None
          /\ ev.path \in DOMAIN files
          /\ self.best_score = ev.score

(* The first evaluation of a model of an unrecognized kind: saved *)
C5_Witness ==
    /\ hist.n_evals = 1
    /\ self.config.benchmark_metric = "other"
    /\ hist.last_eval.path \in DOMAIN files
    /\ self.best_score = hist.last_eval.score

(* C6. Unrecognized metric kind is fatal: every evaluation of a model     *)
(* whose benchmark metric is not accuracy, loss or nll raises, the first   *)
(* one included, so no checkpoint is saved and best_score stays unset.     *)
C6_UnrecognizedFatal ==
    (self.config.benchmark_metric \notin Recognized)
    => /\ hist.last_eval.ok => hist.last_eval.verdict = "raise"
       /\ DOMAIN files = {}
       /\ self.best_score = None

(* C7. Log-level selection: the level a train_batch call runs with is the *)
(* one chosen from the epoch_step of that batch before its increment: ALL  *)
(* if log_iteration_all is configured and divides it, else SCALARS if      *)
(* log_iteration_scalars is configured and divides it, else NONE. An       *)
(* interval of 0 divides no step (the modulo by 0 is undefined), so it     *)
(* selects nothing.                                                        *)
Divides(k, n) == k # None /\ k # 0 /\ n % k = 0

ExpectedLevel(config, step) ==
    IF Divides(config.log_iteration_all, step) THEN "ALL"
    ELSE IF Divides(config.log_iteration_scalars, step) THEN "SCALARS"
    ELSE "NONE"

C7_LogLevel ==
    (hist.n_train_batch > 0)
    => /\ log = ExpectedLevel(self.config, hist.log_step)
       /\ (pc = "batch" /\ self.epoch_step > 0) => hist.log_step = self.epoch_step - 1

(* Both intervals divide the step of the batch: ALL wins *)
C7_Witness ==
    /\ hist.n_train_batch > 0
    /\ hist.log_step = 2
    /\ self.config.log_iteration_all = 2
    /\ self.config.log_iteration_scalars = 1
    /\ log = "ALL"

(* C8. Artifact registration: when train() has left the loop with a run   *)
(* attached, add_artifact was called once if a checkpoint was saved in     *)
(* this call and not at all otherwise, with the path of the most recently  *)
(* saved checkpoint (whose score is the final best score), after the last  *)
(* train_batch and before on_train_end; inside the loop nothing is         *)
(* registered.                                                             *)
C8_Artifact ==
    /\ pc \notin {"train_end", "stopped"} => hist.n_artifacts = 0
    /\ (pc \in {"train_end", "stopped"} /\ self._run # "None")
       => /\ hist.n_artifacts = (IF hist.n_saved >= 1 THEN 1 ELSE 0)
          /\ hist.n_artifacts = 1
             => /\ artifacts[Len(artifacts)] = hist.saved_path
                /\ hist.saved_path \in DOMAIN files
                /\ hist.saved_score = self.best_score
                /\ hist.artifact_after = hist.n_train_batch
                /\ ~hist.artifact_ended

(* Two checkpoints saved, one artifact registered *)
C8_Witness ==
    /\ pc = "stopped"
    /\ self._run # "None"
    /\ hist.n_saved = 2
    /\ hist.n_artifacts = 1
    /\ Len(artifacts) = 1

(* C9. Missing benchmark metric is fatal: when the aggregated mapping has *)
(* no entry for the benchmark metric, test() raises KeyError and train()   *)
(* ends with it: best_score, epoch and every other field unchanged, no     *)
(* checkpoint written.                                                     *)
C9_MissingMetric ==
    [][(pc = "test_return" /\ self.config.benchmark_metric \notin DOMAIN test_losses)
       => (pc' = "error" /\ err' = "KeyError" /\ self' = self /\ files' = files
           /\ best_model_fname' = best_model_fname
           /\ hist'.n_evals = hist.n_evals)]_vars

(* A later evaluation lacks the metric after an earlier one had it *)
C9_Witness ==
    /\ pc = "error"
    /\ err = "KeyError"
    /\ hist.n_evals >= 1
    /\ self.best_score # None

(* C10. Explicit best_score is honoured: an instance constructed with an  *)
(* explicitly supplied best_score b has best_score = b after construction. *)
C10_ExplicitBest ==
    (pc = "idle" /\ hist.n_evals = 0 /\ args.best_score_given)
    => self.best_score = args.best_score

(* C11. best_score is None exactly as long as no evaluation has completed *)
(* in the instance, whatever arguments it was constructed with and also    *)
(* when it was obtained by load(); the step that completes the first       *)
(* evaluation makes it non-None and it stays non-None in that instance.    *)
C11_NoneUntilEvaluated ==
    /\ hist.n_evals = 0 => self.best_score = None
    /\ hist.n_evals >= 1 => self.best_score # None

(* An instance loaded from a checkpoint that holds a score has completed  *)
(* an evaluation of its own.                                               *)
C11_Witness ==
    /\ hist.loaded # NoPath
    /\ args.best_score_given /\ args.best_score # None
    /\ hist.n_evals = 1
    /\ self.best_score # None

(* C12. Epoch-step meaning: epoch_step is the number of batches processed *)
(* within the epoch whose index is the current value of epoch, hence 0     *)
(* right after epoch is incremented, and global_step = epoch * L +         *)
(* epoch_step in a run started from zero.                                  *)
C12_StepOfCurrentEpoch ==
    hist.epoch_started # None
    => /\ self.epoch_step = (IF hist.epoch_started = self.epoch
                              THEN hist.in_epoch ELSE 0)
       /\ (hist.start_step = 0 /\ hist.start_epoch = 0)
          => self.global_step
                = self.epoch * self.config.n_train_batches + self.epoch_step

(* The batches of a stream that report the metric name, and the sum of    *)
(* the values they report for it                                           *)
Reporting(stream, name) == {i \in 1 .. Len(stream) : name \in DOMAIN stream[i]}

RECURSIVE SumOfValues(_, _)
SumOfValues(stream, name) ==
    IF stream = <<>> THEN 0
    ELSE (IF name \in DOMAIN Head(stream) THEN Head(stream)[name] ELSE 0)
         + SumOfValues(Tail(stream), name)

Reordered(stream, perm) == [i \in 1 .. Len(stream) |-> stream[perm[i]]]

StrictlyBetter(kind, a, b) == IF kind = "nll" THEN a < b ELSE a > b

(* C14. Best-score tracking: within one train() call of a model whose     *)
(* benchmark metric is accuracy, loss or nll, after every completed        *)
(* evaluation best_score is the best of the scores returned so far (the    *)
(* maximum, for nll the minimum); an evaluation saves a checkpoint if and  *)
(* only if its score is strictly better than every earlier score of the    *)
(* call, best_score changes at exactly those evaluations, and the          *)
(* checkpoint saved last is the one of the earliest epoch whose score is   *)
(* the current best_score.                                                 *)
C14_BestTracking ==
    LET kind == self.config.benchmark_metric
        evs == hist.evals
        n == Len(evs)
        first_best == CHOOSE i \in 1 .. n :
                         /\ evs[i].score = self.best_score
                         /\ \A j \in 1 .. i - 1 : evs[j].score # self.best_score
    IN  (kind \in Recognized /\ n >= 1)
        => /\ \E i \in 1 .. n : evs[i].score = self.best_score
           /\ \A i \in 1 .. n : ~StrictlyBetter(kind, evs[i].score, self.best_score)
           /\ \A i \in 1 .. n :
                 evs[i].saved <=> \A j \in 1 .. i - 1 :
                                     StrictlyBetter(kind, evs[i].score, evs[j].score)
           /\ \A i \in 1 .. n :
                 evs[i].best = IF evs[i].saved THEN evs[i].score ELSE evs[i - 1].best
           /\ evs[n].best = self.best_score
           /\ hist.n_saved = Cardinality({i \in 1 .. n : evs[i].saved})
           /\ best_model_fname = hist.saved_path
           /\ best_model_fname \in DOMAIN files
           /\ files[best_model_fname].epoch = hist.start_epoch + first_best - 1

(* Two evaluations of an accuracy model returned the same score: only the *)
(* first one saved, and the checkpoint is the one of epoch 0.              *)
C14_Witness ==
    /\ self.config.benchmark_metric = "accuracy"
    /\ Len(hist.evals) = 2
    /\ hist.evals[1].score = 1 /\ hist.evals[2].score = 1
    /\ hist.evals[1].saved /\ ~hist.evals[2].saved
    /\ self.best_score = 1
    /\ files[best_model_fname].epoch = 0

(* C15. A failing collaborator aborts train(): when train_batch, or       *)
(* drawing a batch, raises during an epoch, train() ends with that error   *)
(* and no field of the instance has changed for the failing batch          *)
(* (global_step, epoch_step and epoch as before); nothing is saved or      *)
(* evaluated by that step or after it, no artifact is registered and       *)
(* on_train_end is not called, also when a checkpoint was saved in an      *)
(* earlier epoch: the only step after the error is a load() of a new       *)
(* instance. The loop is left normally only when _should_stop_training()   *)
(* holds.                                                                  *)
C15_FailureAborts ==
    /\ [][(pc = "batch" /\ pc' = "error")
            => /\ err' = "CollaboratorError"
               /\ self' = self
               /\ files' = files
               /\ artifacts' = artifacts
               /\ hist'.n_evals = hist.n_evals
               /\ hist'.n_saved = hist.n_saved]_vars
    /\ [](err = "CollaboratorError"
            => pc = "error" /\ ~hist.ended /\ hist.n_artifacts = 0)
    /\ [][pc = "error" => (pc' = "idle" /\ hist'.n_loads = hist.n_loads + 1)]_vars
    /\ [][(pc \in {"epoch_start", "batch"} /\ pc' = "finish")
            => _should_stop_training(self')]_vars

(* train_batch failed in the epoch after the one whose checkpoint was     *)
(* saved, in a run attached to an experiment: no artifact was registered.  *)
C15_Witness ==
    /\ pc = "error"
    /\ err = "CollaboratorError"
    /\ best_model_fname # NoPath
    /\ self._run # "None"
    /\ hist.n_train_batch = 2
    /\ self.global_step = 1
    /\ artifacts = <<>>

(* The epoch most recently started was stopped by the iteration budget    *)
(* right after its last batch.                                             *)
StoppedAtEpochEnd ==
    /\ self.config.n_global_iterations # None
    /\ self.config.n_train_batches >= 1
    /\ hist.epoch_started = self.epoch
    /\ hist.in_epoch = self.config.n_train_batches

(* C16 as stated: under either budget kind, when the dataset has a test   *)
(* set, train() stops with on_epoch_end called and one evaluation made     *)
(* for each epoch whose batches were all processed, and with best_score    *)
(* non-None if there was such an epoch.                                    *)
C16_EveryFullEpochEvaluated ==
    (Stopping /\ self.config.has_test_set)
    => /\ hist.n_epoch_end = hist.full_epochs
       /\ hist.n_tests = hist.full_epochs
       /\ hist.full_epochs >= 1 => self.best_score # None

(* C16, amended: when the dataset has a test set, train() stops with one  *)
(* on_epoch_end call and one evaluation for each epoch whose batches were  *)
(* all processed, except, under an iteration budget, the epoch whose last  *)
(* batch brought global_step to the budget: train() stops right after      *)
(* that batch, without on_epoch_end and without an evaluation of that      *)
(* epoch. Under an epoch budget a run that processed a full epoch has      *)
(* best_score non-None when it stops; under an iteration budget only a     *)
(* run that went on after a full epoch has.                                *)
C16_FullEpochEvaluatedUnlessStopped ==
    (Stopping /\ self.config.has_test_set)
    => LET cut == IF StoppedAtEpochEnd THEN 1 ELSE 0 IN
       /\ hist.n_epoch_end = hist.full_epochs - cut
       /\ hist.n_tests = hist.full_epochs - cut
       /\ Len(hist.evals) = hist.n_tests
       /\ self.config.n_global_iterations = None => cut = 0
       /\ hist.full_epochs - cut >= 1 => self.best_score # None

(* An iteration budget of 2 with 2 batches per epoch: the run has stopped *)
(* after a full epoch that was never evaluated.                            *)
C16_Witness ==
    /\ pc = "stopped"
    /\ self.config.has_test_set
    /\ self.config.n_global_iterations = 2
    /\ self.config.n_train_batches = 2
    /\ hist.full_epochs = 1
    /\ hist.n_tests = 0
    /\ self.best_score = None

(* C17. Model mode discipline: every train_batch call is made while the   *)
(* model's most recent mode toggle was train(), and every test_batch call  *)
(* while it was eval(); batch_mode and test_mode are the mode at the most  *)
(* recent call of each.                                                    *)
C17_ModeDiscipline ==
    /\ hist.batch_mode \in {"none", "train"}
    /\ hist.test_mode \in {"none", "eval"}

(* C18. Termination: under a finite budget and a train loader of finitely *)
(* many batches per epoch (zero or more), train() reaches the stop         *)
(* condition. Stated as progress towards the budget: the stop condition    *)
(* reads global_step alone under an iteration budget and epoch alone       *)
(* under an epoch budget, and every pass of the loop runs the same loader, *)
(* so train() can only terminate if each pass that comes back to the       *)
(* start of the loop below the budget has advanced that counter.           *)
C18_Termination ==
    (pc = "epoch_start" /\ hist.epoch_started # None
        /\ ~_should_stop_training(self))
    => IF self.config.n_global_iterations # None
       THEN self.global_step > hist.epoch_start_step
       ELSE self.epoch > hist.epoch_started

(* C19. Resume equivalence: under an epoch budget E with L batches per    *)
(* epoch, train() on an instance loaded from the checkpoint that an        *)
(* uninterrupted run from zero saved after evaluating epoch e < E (the     *)
(* checkpoint taken when (e + 1) * L batches were done) stops with         *)
(* epoch = E and global_step = E * L, as the uninterrupted run does, and   *)
(* has trained only the batches of the epochs after e.                     *)
C19_ResumeEquivalence ==
    LET E == self.config.n_epochs
        L == self.config.n_train_batches
        e == hist.start_epoch
    IN  (pc = "stopped" /\ hist.loaded # NoPath
            /\ self.config.n_global_iterations = None
            /\ e < E /\ hist.start_step = (e + 1) * L)
        => /\ self.epoch = E
           /\ self.global_step = E * L
           /\ hist.n_train_batch = (E - e - 1) * L

(* C20. Checkpoints never clobbered: a written checkpoint file is never   *)
(* replaced or removed; every save(), in the same train() call or in a     *)
(* train() call on an instance loaded from a checkpoint of the run,        *)
(* writes a path no earlier save wrote.                                    *)
C20_NeverClobbered ==
    [][/\ \A p \in DOMAIN files : p \in DOMAIN files'
       /\ hist'.n_saved = hist.n_saved + 1
             => hist'.saved_path \notin DOMAIN files]_vars

====
